---- MODULE Spec2Model ----
(***************************************************************************)
(* Interview-CheatSheet: the streaming pipeline that turns captured audio  *)
(* into de-duplicated question events.                                     *)
(*                                                                         *)
(*   src/src/stt.py            STT: audio_callback, transcribe, stop,      *)
(*                             get_last_transcription                      *)
(*   src/src/llm_processor.py  LLMProcessor: is_question, add_to_context,  *)
(*                             check_accumulated_question, process         *)
(*   src/main.py               InterviewCheatSheet: is_similar_question,   *)
(*                             start_stt_processing (the poll loop)        *)
(*                                                                         *)
(* Texts are TLA+ strings; the Python string methods the code uses         *)
(* (split, strip, lower, endswith, startswith, in, join) are operators     *)
(* over the characters of the string.                                      *)
(***************************************************************************)
EXTENDS Integers, Sequences, FiniteSets, TLC

(***************************************************************************)
(* Python string methods                                                   *)
(***************************************************************************)

UpperCase == "ABCDEFGHIJKLMNOPQRSTUVWXYZ"
LowerCase == "abcdefghijklmnopqrstuvwxyz"

\* str.split() and str.strip() with no argument work on whitespace.
Whitespace == {" ", "\t", "\n"}

\* str.lower() on one character: the upper-case letters map to lower case.
lower_table ==
    LET at(c) == CHOOSE i \in 1..Len(UpperCase) : SubSeq(UpperCase, i, i) = c
    IN  [c \in {SubSeq(UpperCase, i, i) : i \in 1..Len(UpperCase)} |->
            SubSeq(LowerCase, at(c), at(c))]

lower_char(c) == IF c \in DOMAIN lower_table THEN lower_table[c] ELSE c

RECURSIVE lower(_)
lower(s) == IF s = "" THEN "" ELSE lower_char(Head(s)) \o lower(Tail(s))

RECURSIVE lstrip(_)
lstrip(s) == IF s = "" THEN ""
             ELSE IF Head(s) \in Whitespace THEN lstrip(Tail(s)) ELSE s

RECURSIVE rstrip(_)
rstrip(s) == IF s = "" THEN ""
             ELSE IF SubSeq(s, Len(s), Len(s)) \in Whitespace
                  THEN rstrip(SubSeq(s, 1, Len(s) - 1))
                  ELSE s

strip(s) == rstrip(lstrip(s))

\* str.split(): the maximal runs of non-whitespace characters, in order.
RECURSIVE split_acc(_, _, _)
split_acc(s, cur, acc) ==
    IF s = ""
    THEN IF cur = "" THEN acc ELSE Append(acc, cur)
    ELSE IF Head(s) \in Whitespace
         THEN split_acc(Tail(s), "", IF cur = "" THEN acc ELSE Append(acc, cur))
         ELSE split_acc(Tail(s), cur \o Head(s), acc)

split(s) == split_acc(s, "", <<>>)

endswith(s, e) == Len(s) >= Len(e) /\ SubSeq(s, Len(s) - Len(e) + 1, Len(s)) = e

startswith(s, p) == Len(s) >= Len(p) /\ SubSeq(s, 1, Len(p)) = p

\* p in s
contains(s, p) == \E i \in 1..(Len(s) - Len(p) + 1) : SubSeq(s, i, i + Len(p) - 1) = p

\* " ".join(items)
RECURSIVE join(_)
join(items) ==
    IF Len(items) = 0 THEN ""
    ELSE IF Len(items) = 1 THEN items[1]
    ELSE items[1] \o " " \o join(Tail(items))

\* items[-n:]
last_n(items, n) ==
    IF Len(items) <= n THEN items ELSE SubSeq(items, Len(items) - n + 1, Len(items))

(***************************************************************************)
(* LLMProcessor.is_question                                                *)
(***************************************************************************)

incomplete_endings ==
    <<"what is...", "is...", "about...", "...", "so...", "like...", "the...">>

complete_question_patterns ==
    <<"tell me about yourself", "describe yourself", "what are your strengths",
      "what are your weaknesses", "why should we hire you", "why do you want",
      "where do you see yourself", "describe a time", "give me an example",
      "how would you", "what would you do", "can you tell me about",
      "could you explain", "walk me through your", "run me through your">>

question_starters ==
    <<"what", "why", "how", "when", "where", "who", "can you", "could you",
      "would you", "do you", "tell me", "explain", "describe", "define">>

MinWords == 5
StarterMinWords == 7

is_question_mut_nominwords(text) ==
    LET text_lower == lower(strip(text))
    IN  IF \E i \in 1..Len(incomplete_endings) : endswith(text_lower, incomplete_endings[i])
        THEN FALSE
        ELSE IF contains(text, "?") THEN TRUE
        ELSE IF \E i \in 1..Len(complete_question_patterns) :
                    contains(text_lower, complete_question_patterns[i])
        THEN TRUE
        ELSE /\ Len(split(text)) >= StarterMinWords
             /\ \E i \in 1..Len(question_starters) :
                    startswith(text_lower, question_starters[i])

is_question_mut_qmarkfirst(text) ==
    LET text_lower == lower(strip(text))
    IN  IF Len(split(text)) < MinWords THEN FALSE
        ELSE IF contains(text, "?") THEN TRUE
        ELSE IF \E i \in 1..Len(incomplete_endings) : endswith(text_lower, incomplete_endings[i])
        THEN FALSE
        ELSE IF \E i \in 1..Len(complete_question_patterns) :
                    contains(text_lower, complete_question_patterns[i])
        THEN TRUE
        ELSE /\ Len(split(text)) >= StarterMinWords
             /\ \E i \in 1..Len(question_starters) :
                    startswith(text_lower, question_starters[i])

is_question_mut_anylength(text) ==
    LET text_lower == lower(strip(text))
    IN  IF Len(split(text)) < MinWords THEN FALSE
        ELSE IF \E i \in 1..Len(incomplete_endings) : endswith(text_lower, incomplete_endings[i])
        THEN FALSE
        ELSE IF contains(text, "?") THEN TRUE
        ELSE IF \E i \in 1..Len(complete_question_patterns) :
                    contains(text_lower, complete_question_patterns[i])
        THEN TRUE
        ELSE \E i \in 1..Len(question_starters) :
                 startswith(text_lower, question_starters[i])

is_question(text) ==
    LET text_lower == lower(strip(text))
    IN  IF Len(split(text)) < MinWords THEN FALSE
        ELSE IF \E i \in 1..Len(incomplete_endings) : endswith(text_lower, incomplete_endings[i])
        THEN FALSE
        ELSE IF contains(text, "?") THEN TRUE
        ELSE IF \E i \in 1..Len(complete_question_patterns) :
                    contains(text_lower, complete_question_patterns[i])
        THEN TRUE
        ELSE /\ Len(split(text)) >= StarterMinWords
             /\ \E i \in 1..Len(question_starters) :
                    startswith(text_lower, question_starters[i])

(***************************************************************************)
(* LLMProcessor: context window                                            *)
(***************************************************************************)

max_context == 5

add_to_context_mut_poplast(context, text) ==
    LET appended == Append(context, text)
    IN  IF Len(appended) > max_context
        THEN SubSeq(appended, 1, Len(appended) - 1)
        ELSE appended

\* context_history.append(text); pop(0) when longer than max_context.
add_to_context(context, text) ==
    LET appended == Append(context, text)
    IN  IF Len(appended) > max_context THEN Tail(appended) ELSE appended

\* An optional string: <<>> is None, <<s>> is the string s.
None == <<>>
Some(s) == <<s>>

check_accumulated_question_mut_three(context) ==
    IF Len(context) < 3 THEN None
    ELSE LET recent == join(last_n(context, 3))
         IN  IF is_question(recent) THEN Some(recent) ELSE None

\* LLMProcessor.check_accumulated_question over a given context_history.
check_accumulated_question(context) ==
    IF Len(context) < 2 THEN None
    ELSE LET recent == join(last_n(context, 3))
         IN  IF is_question(recent) THEN Some(recent) ELSE None

(***************************************************************************)
(* LLMProcessor.clean_response                                             *)
(***************************************************************************)

\* The character of s at position k, "" outside s.
char_at(s, k) == IF k >= 1 /\ k <= Len(s) THEN SubSeq(s, k, k) ELSE ""

\* \s*$ matches s from position k on.
blank_from(s, k) == \A i \in k..Len(s) : char_at(s, i) \in Whitespace

\* The position of the first ")" of s after position i, 0 when there is none.
first_close(s, i) ==
    LET closes == {j \in (i + 1)..Len(s) : char_at(s, j) = ")"}
    IN  IF closes = {} THEN 0 ELSE CHOOSE j \in closes : \A k \in closes : j <= k

\* The smallest member of a non-empty set of positions.
leftmost(positions) == CHOOSE p \in positions : \A q \in positions : p <= q

\* re.sub(r'^PREFIX\s*', '', response, flags=re.IGNORECASE), the prefix given
\* in lower case.
sub_prefix(response, prefix) ==
    IF Len(response) >= Len(prefix) /\ lower(SubSeq(response, 1, Len(prefix))) = prefix
    THEN lstrip(SubSeq(response, Len(prefix) + 1, Len(response)))
    ELSE response

\* re.sub(r'\n?\*\([^)]+\)\*?\s*$', '', response): the match starts at the
\* leftmost "*(" whose first ")" is not right behind the "(" and is followed
\* by at most a "*" and blanks up to the end; a newline before it goes too.
sub_starred_paren(response) ==
    LET opens == {i \in 1..Len(response) :
                     /\ char_at(response, i) = "*"
                     /\ char_at(response, i + 1) = "("
                     /\ LET j == first_close(response, i + 1)
                        IN  /\ j > i + 2
                            /\ \/ blank_from(response, j + 1)
                               \/ /\ char_at(response, j + 1) = "*"
                                  /\ blank_from(response, j + 2)}
    IN  IF opens = {} THEN response
        ELSE LET i == leftmost(opens)
                 start == IF char_at(response, i - 1) = "\n" THEN i - 1 ELSE i
             IN  SubSeq(response, 1, start - 1)

\* re.sub(r'\n?\([^)]+\)\s*$', '', response)
sub_paren_mut_keep(response) == response

sub_paren(response) ==
    LET opens == {i \in 1..Len(response) :
                     /\ char_at(response, i) = "("
                     /\ LET j == first_close(response, i)
                        IN  j > i + 1 /\ blank_from(response, j + 1)}
    IN  IF opens = {} THEN response
        ELSE LET i == leftmost(opens)
                 start == IF char_at(response, i - 1) = "\n" THEN i - 1 ELSE i
             IN  SubSeq(response, 1, start - 1)

\* re.sub(r'\n?\*?\(Key points:.*?\)\*?\s*$', '', response, flags=re.DOTALL):
\* with DOTALL the lazy .*? runs over anything, ")" included, up to a ")"
\* that is followed by at most a "*" and blanks up to the end.
sub_key_points(response) ==
    LET key == "(Key points:"
        closes == {j \in 1..Len(response) :
                      /\ char_at(response, j) = ")"
                      /\ \/ blank_from(response, j + 1)
                         \/ /\ char_at(response, j + 1) = "*"
                            /\ blank_from(response, j + 2)}
        opens == {i \in 1..Len(response) :
                     /\ i + Len(key) - 1 <= Len(response)
                     /\ SubSeq(response, i, i + Len(key) - 1) = key
                     /\ \E j \in closes : j >= i + Len(key)}
    IN  IF opens = {} THEN response
        ELSE LET i == leftmost(opens)
                 star == IF char_at(response, i - 1) = "*" THEN i - 1 ELSE i
                 start == IF char_at(response, star - 1) = "\n" THEN star - 1 ELSE star
             IN  SubSeq(response, 1, start - 1)

\* LLMProcessor.clean_response
clean_response(response) ==
    LET r1 == sub_prefix(response, "**answer:**")
        r2 == sub_prefix(r1, "answer:")
        r3 == sub_prefix(r2, "**response:**")
        r4 == sub_starred_paren(r3)
        r5 == sub_paren(r4)
        r6 == sub_key_points(r5)
    IN  strip(r6)

(***************************************************************************)
(* InterviewCheatSheet.is_similar_question                                 *)
(***************************************************************************)

\* set(text.lower().split())
word_set(text) == LET ws == split(lower(text)) IN {ws[i] : i \in 1..Len(ws)}

similarity_mut_overlap(question_words, prev_words) ==
    [num |-> Cardinality(question_words \cap prev_words),
     den |-> Cardinality(question_words)]

\* len(question_words & prev_words) / len(question_words | prev_words), kept as
\* the exact fraction num/den.
similarity(question_words, prev_words) ==
    [num |-> Cardinality(question_words \cap prev_words),
     den |-> Cardinality(question_words \cup prev_words)]

\* similarity > 0.7: num/den > 7/10 (the float quotient of two small integers
\* exceeds the float 0.7 exactly when the fraction exceeds 7/10).
over_threshold(sim) == 10 * sim.num > 7 * sim.den

\* The loop over processed_questions[-3:] with its early return.
RECURSIVE similar_to_any(_, _)
similar_to_any(question_words, prevs) ==
    IF Len(prevs) = 0 THEN FALSE
    ELSE LET prev_words == word_set(Head(prevs))
         IN  IF /\ Cardinality(question_words) > 0
                /\ Cardinality(prev_words) > 0
                /\ over_threshold(similarity(question_words, prev_words))
             THEN TRUE
             ELSE similar_to_any(question_words, Tail(prevs))

is_similar_question_mut_all(question, processed) ==
    similar_to_any(word_set(question), processed)

is_similar_question(question, processed) ==
    similar_to_any(word_set(question), last_n(processed, 3))

max_processed == 10

\* processed_questions.append(q); pop(0) when longer than 10.
track_question(processed, q) ==
    LET appended == Append(processed, q)
    IN  IF Len(appended) > max_processed THEN Tail(appended) ELSE appended

(***************************************************************************)
(* State                                                                   *)
(***************************************************************************)

VARIABLES
    \* the environment of one run
    script,                \* what is said in this run: the texts of its spans, in order
    provider,              \* LLMProcessor.provider (LLM_PROVIDER)
    gui_exists,            \* gui.root.winfo_exists()
    \* STT
    RATE,                  \* self.RATE
    audio_buffer,          \* self.audio_buffer: the frames not yet emitted
    data_queue,            \* self.data_queue
    transcription,         \* self.transcription: the transcript log
    last_transcription,    \* self.last_transcription: the slot
    is_listening,          \* self.is_listening
    lock,                  \* self.lock: "free" or the thread holding it
    stream,                \* self.stream: the PyAudio stream object, if any
    pa,                    \* self.p: "absent", "live", "terminated"
    \* the transcription worker thread (STT.transcribe)
    wpc,                   \* its position
    wseg,                  \* the frames of the segment it dequeued last
    wspans,                \* the spans of that segment not yet published
    \* the poll loop (InterviewCheatSheet.start_stt_processing)
    opc,                   \* its position
    otext,                 \* the local variable transcription
    context_history,       \* llm_processor.context_history
    processed_questions,   \* self.processed_questions
    question_to_process,   \* the candidate being answered, <<>> when none
    events,                \* the gui events of the current tick, in order
    \* history variables (not read by the program)
    frames_in,             \* number of frames the device has delivered
    emitted,               \* every segment audio_callback enqueued, in order
    encode_failed,         \* number of buffers dropped by a failed encoding
    transcribed,           \* every segment handed to the model, in order
    slot_src,              \* index in the log of the span in the slot, 0 if none
    taken,                 \* log indices of the spans takes have returned
    last_take,             \* what the last take returned and when
    spc,                   \* the position of a caller of stop() other than the handler
    stop_calls,            \* number of calls of stop() that have run to their end
    at_stop,               \* audio_buffer holds frames that were in it when a stop() began
    stop_raised,           \* a call of stop() raised
    ctx_log,               \* every text passed to add_to_context, in order
    pq_log,                \* every question appended to processed_questions, in order
    in_call,               \* what had been captured when the backend call in flight began
    \* the pure functions, applied to drawn inputs
    call,
    ret

env_vars   == <<script, provider, gui_exists>>
audio_vars == <<RATE, audio_buffer, data_queue, stream, pa, is_listening,
                frames_in, emitted, encode_failed, stop_calls, stop_raised, spc, at_stop>>
slot_vars  == <<transcription, last_transcription, lock, slot_src>>
worker_vars == <<wpc, wseg, wspans, transcribed>>
take_vars  == <<taken, last_take>>
orch_vars  == <<opc, otext, context_history, processed_questions,
                question_to_process, events,
                ctx_log, pq_log, in_call>>
fn_vars    == <<call, ret>>

vars == <<env_vars, audio_vars, slot_vars, worker_vars, take_vars, orch_vars, fn_vars>>

(***************************************************************************)
(* Bounds of the model                                                     *)
(***************************************************************************)

MaxFrames == 6          \* frames the device delivers in one run
MaxSpans == 3           \* spans the model returns in one run
MaxSpansPerSegment == 2 \* spans the model returns for one segment
MaxStops == 2           \* calls of stop() in one run
MaxTicks == 12          \* spans polled in a long run of the poll loop alone
MaxShort == 3           \* spans polled in a short run of the poll loop alone

(***************************************************************************)
(* STT                                                                     *)
(***************************************************************************)

CHUNK == 1024
buffer_duration == 5
InitialRate == 16000

\* int(device_info['defaultSampleRate']): whatever the device reports.  Small
\* rates keep a segment to a few frames of CHUNK samples: 5 frames are exactly
\* buffer_duration seconds at 1024 Hz, 3 frames are the first to reach it at
\* 512 Hz.
DeviceRates == {512, 1024}

\* self.stream before listen() has set it, and as self.p.open() returns it
\* once start_stream() has run.
NoStream == [exists |-> FALSE, running |-> FALSE, open |-> FALSE]
OpenedStream == [exists |-> TRUE, running |-> TRUE, open |-> TRUE]

STOP == [kind |-> "STOP", frames |-> <<>>]
Wav(frames) == [kind |-> "wav", frames |-> frames]

\* len(self.audio_buffer) * self.CHUNK / self.RATE >= self.buffer_duration
buffer_full_mut_strict(buffer, rate) == Len(buffer) * CHUNK > buffer_duration * rate

buffer_full(buffer, rate) == Len(buffer) * CHUNK >= buffer_duration * rate

\* STT.listen(): opens the device and starts the stream, or fails, terminates
\* the PyAudio handle it created and re-raises; the poll loop's handler then
\* calls stop().
listen_ok ==
    /\ opc = "listen"
    /\ \E r \in DeviceRates : RATE' = r
    /\ pa' = "live"
    /\ stream' = OpenedStream
    /\ opc' = "loop"
    /\ UNCHANGED <<env_vars, audio_buffer, data_queue, is_listening, frames_in, emitted,
                   encode_failed, stop_calls, stop_raised, spc, at_stop, slot_vars, worker_vars,
                   take_vars, otext, context_history, processed_questions,
                   question_to_process, events, ctx_log, pq_log, in_call, fn_vars>>

audio_callback_mut_lifo(encoding_ok) ==
    /\ stream.running
    /\ frames_in < MaxFrames
    /\ frames_in' = frames_in + 1
    /\ LET buffer == Append(audio_buffer, frames_in + 1)
       IN  IF buffer_full(buffer, RATE)
           THEN IF encoding_ok
                THEN /\ data_queue' = <<Wav(buffer)>> \o data_queue
                     /\ emitted' = Append(emitted, buffer)
                     /\ audio_buffer' = <<>>
                     /\ UNCHANGED encode_failed
                ELSE /\ audio_buffer' = <<>>
                     /\ encode_failed' = encode_failed + 1
                     /\ UNCHANGED <<data_queue, emitted>>
           ELSE /\ encoding_ok
                /\ audio_buffer' = buffer
                /\ UNCHANGED <<data_queue, emitted, encode_failed>>
    /\ at_stop' = (at_stop /\ audio_buffer' # <<>>)
    /\ UNCHANGED <<env_vars, RATE, stream, pa, is_listening, stop_calls, stop_raised, spc,
                   slot_vars, worker_vars, take_vars, orch_vars, fn_vars>>

audio_callback_mut_keep(encoding_ok) ==
    /\ stream.running
    /\ frames_in < MaxFrames
    /\ frames_in' = frames_in + 1
    /\ LET buffer == Append(audio_buffer, frames_in + 1)
       IN  IF buffer_full(buffer, RATE)
           THEN IF encoding_ok
                THEN /\ data_queue' = Append(data_queue, Wav(buffer))
                     /\ emitted' = Append(emitted, buffer)
                     /\ audio_buffer' = <<>>
                     /\ UNCHANGED encode_failed
                ELSE /\ audio_buffer' = buffer
                     /\ encode_failed' = encode_failed + 1
                     /\ UNCHANGED <<data_queue, emitted>>
           ELSE /\ encoding_ok
                /\ audio_buffer' = buffer
                /\ UNCHANGED <<data_queue, emitted, encode_failed>>
    /\ at_stop' = (at_stop /\ audio_buffer' # <<>>)
    /\ UNCHANGED <<env_vars, RATE, stream, pa, is_listening, stop_calls, stop_raised, spc,
                   slot_vars, worker_vars, take_vars, orch_vars, fn_vars>>

\* STT.audio_callback: one frame from the device.  The encoding of a full
\* buffer either succeeds or raises inside the try block.
audio_callback(encoding_ok) ==
    /\ stream.running
    /\ frames_in < MaxFrames
    /\ frames_in' = frames_in + 1
    /\ LET buffer == Append(audio_buffer, frames_in + 1)
       IN  IF buffer_full(buffer, RATE)
           THEN IF encoding_ok
                THEN /\ data_queue' = Append(data_queue, Wav(buffer))
                     /\ emitted' = Append(emitted, buffer)
                     /\ audio_buffer' = <<>>
                     /\ UNCHANGED encode_failed
                ELSE /\ audio_buffer' = <<>>
                     /\ encode_failed' = encode_failed + 1
                     /\ UNCHANGED <<data_queue, emitted>>
           ELSE /\ encoding_ok
                /\ audio_buffer' = buffer
                /\ UNCHANGED <<data_queue, emitted, encode_failed>>
    /\ at_stop' = (at_stop /\ audio_buffer' # <<>>)
    /\ UNCHANGED <<env_vars, RATE, stream, pa, is_listening, stop_calls, stop_raised, spc,
                   slot_vars, worker_vars, take_vars, orch_vars, fn_vars>>

\* STT.stop() from its first line to self.is_listening = False.  The audio
\* callback runs on PortAudio's own thread and goes on being called until
\* stop_stream() has stopped the stream.
stop_enter ==
    /\ is_listening' = FALSE
    /\ at_stop' = (at_stop \/ audio_buffer # <<>>)

\* The rest of STT.stop().  PyAudio's Stream.stop_stream() returns at once when
\* the stream is not running and otherwise stops the device stream, which fails
\* on a closed one; Stream.close() releases the device stream if it is still
\* open and marks the stream not running; PyAudio.terminate() releases the
\* library.  An exception leaves stop() at the call that raised it.
stop_body_mut_noclose ==
    LET raises == stream.exists /\ stream.running /\ ~stream.open
    IN  /\ stop_calls' = stop_calls + 1
        /\ IF raises
           THEN /\ stop_raised' = TRUE
                /\ UNCHANGED <<stream, pa, data_queue>>
           ELSE /\ stream' = IF stream.exists
                             THEN [stream EXCEPT !.running = FALSE]
                             ELSE stream
                /\ pa' = IF pa = "absent" THEN "absent" ELSE "terminated"
                /\ data_queue' = Append(data_queue, STOP)
                /\ UNCHANGED stop_raised

stop_body_mut_nosentinel ==
    LET raises == stream.exists /\ stream.running /\ ~stream.open
    IN  /\ stop_calls' = stop_calls + 1
        /\ IF raises
           THEN /\ stop_raised' = TRUE
                /\ UNCHANGED <<stream, pa, data_queue>>
           ELSE /\ stream' = IF stream.exists
                             THEN [stream EXCEPT !.running = FALSE, !.open = FALSE]
                             ELSE stream
                /\ pa' = IF pa = "absent" THEN "absent" ELSE "terminated"
                /\ data_queue' = data_queue
                /\ UNCHANGED stop_raised

stop_body_mut_flush ==
    LET raises == stream.exists /\ stream.running /\ ~stream.open
    IN  /\ stop_calls' = stop_calls + 1
        /\ IF raises
           THEN /\ stop_raised' = TRUE
                /\ UNCHANGED <<stream, pa, data_queue>>
           ELSE /\ stream' = IF stream.exists
                             THEN [stream EXCEPT !.running = FALSE, !.open = FALSE]
                             ELSE stream
                /\ pa' = IF pa = "absent" THEN "absent" ELSE "terminated"
                /\ data_queue' = IF audio_buffer = <<>>
                                 THEN Append(data_queue, STOP)
                                 ELSE data_queue \o <<Wav(audio_buffer), STOP>>
                /\ UNCHANGED stop_raised

stop_body ==
    LET raises == stream.exists /\ stream.running /\ ~stream.open
    IN  /\ stop_calls' = stop_calls + 1
        /\ IF raises
           THEN /\ stop_raised' = TRUE
                /\ UNCHANGED <<stream, pa, data_queue>>
           ELSE /\ stream' = IF stream.exists
                             THEN [stream EXCEPT !.running = FALSE, !.open = FALSE]
                             ELSE stream
                /\ pa' = IF pa = "absent" THEN "absent" ELSE "terminated"
                /\ data_queue' = Append(data_queue, STOP)
                /\ UNCHANGED stop_raised

\* STT.stop() called on the object by its owner, once listen() has returned:
\* the call begins ...
stop_call ==
    /\ opc # "listen"
    /\ stream.exists
    /\ spc = "idle"
    /\ stop_calls < MaxStops
    /\ stop_enter
    /\ spc' = "stopping"
    /\ UNCHANGED <<env_vars, RATE, audio_buffer, data_queue, stream, pa, frames_in,
                   emitted, encode_failed, stop_calls, stop_raised,
                   slot_vars, worker_vars, take_vars, orch_vars, fn_vars>>

\* ... and runs to its end.
stop ==
    /\ spc = "stopping"
    /\ stop_body
    /\ spc' = "idle"
    /\ UNCHANGED <<env_vars, RATE, audio_buffer, is_listening, frames_in, emitted,
                   encode_failed, at_stop,
                   slot_vars, worker_vars, take_vars, orch_vars, fn_vars>>

\* The spans model.transcribe() returns for a segment in which the next k
\* spans of the script were said.
NextSpans(k) == SubSeq(script, Len(transcription), Len(transcription) + k - 1)

\* STT.transcribe, the loop test: while self.is_listening.
transcribe_loop ==
    /\ wpc = "loop"
    /\ wpc' = IF is_listening THEN "get" ELSE "done"
    /\ UNCHANGED <<env_vars, audio_vars, slot_vars, wseg, wspans, transcribed,
                   take_vars, orch_vars, fn_vars>>

\* STT.transcribe: data_queue.get() blocks on the empty queue; 'STOP' ends the
\* loop; a segment goes to model.transcribe(), which returns its spans or
\* raises.  Nothing in transcribe() catches the exception: it ends the thread.
transcribe_get(raised, k) ==
    /\ wpc = "get"
    /\ data_queue # <<>>
    /\ data_queue' = Tail(data_queue)
    /\ IF Head(data_queue).kind = "STOP"
       THEN /\ ~raised /\ k = 0
            /\ wpc' = "done"
            /\ UNCHANGED <<wseg, wspans, transcribed>>
       ELSE /\ wseg' = Head(data_queue).frames
            /\ transcribed' = Append(transcribed, Head(data_queue).frames)
            /\ IF raised
               THEN /\ k = 0
                    /\ wpc' = "dead"
                    /\ UNCHANGED wspans
               ELSE /\ (Len(transcription) - 1) + k <= Len(script)
                    /\ wspans' = NextSpans(k)
                    /\ wpc' = "emit"
    /\ UNCHANGED <<env_vars, RATE, audio_buffer, stream, pa, is_listening, frames_in,
                   emitted, encode_failed, stop_calls, stop_raised, spc, at_stop, slot_vars,
                   take_vars, orch_vars, fn_vars>>

\* STT.transcribe, for the next span: text = segment.text.strip(); with
\* self.lock: self.transcription.append(text) ...
transcribe_append_mut_nolock ==
    /\ wpc = "emit"
    /\ wspans # <<>>
    /\ lock' = lock
    /\ transcription' = Append(transcription, strip(Head(wspans)))
    /\ wpc' = "assign"
    /\ UNCHANGED <<env_vars, audio_vars, last_transcription, slot_src, wseg, wspans,
                   transcribed, take_vars, orch_vars, fn_vars>>

transcribe_append ==
    /\ wpc = "emit"
    /\ wspans # <<>>
    /\ lock = "free"
    /\ lock' = "worker"
    /\ transcription' = Append(transcription, strip(Head(wspans)))
    /\ wpc' = "assign"
    /\ UNCHANGED <<env_vars, audio_vars, last_transcription, slot_src, wseg, wspans,
                   transcribed, take_vars, orch_vars, fn_vars>>

\* ... self.last_transcription = text, and the lock is released.
transcribe_assign ==
    /\ wpc = "assign"
    /\ last_transcription' = strip(Head(wspans))
    /\ slot_src' = Len(transcription)
    /\ lock' = "free"
    /\ wspans' = Tail(wspans)
    /\ wpc' = "emit"
    /\ UNCHANGED <<env_vars, audio_vars, transcription, wseg, transcribed,
                   take_vars, orch_vars, fn_vars>>

\* STT.transcribe, after the last span: task_done() and the sleep.
transcribe_task_done ==
    /\ wpc = "emit"
    /\ wspans = <<>>
    /\ wpc' = "loop"
    /\ UNCHANGED <<env_vars, audio_vars, slot_vars, wseg, wspans, transcribed,
                   take_vars, orch_vars, fn_vars>>

\* STT.get_last_transcription: with self.lock: text = self.last_transcription ...
take_read ==
    /\ opc = "take"
    /\ lock = "free"
    /\ lock' = "main"
    /\ otext' = last_transcription
    /\ opc' = "clear"
    /\ UNCHANGED <<env_vars, audio_vars, transcription, last_transcription, slot_src,
                   worker_vars, take_vars, context_history, processed_questions,
                   question_to_process, events, ctx_log, pq_log, in_call, fn_vars>>

\* ... self.last_transcription = "", the lock is released and text returned.
take_clear_mut_noclear ==
    /\ opc = "clear"
    /\ UNCHANGED <<last_transcription, slot_src>>
    /\ lock' = "free"
    /\ taken' = IF slot_src = 0 THEN taken ELSE Append(taken, slot_src)
    /\ last_take' = [text |-> otext, src |-> slot_src,
                     len |-> Len(transcription), prev |-> last_take.len]
    /\ opc' = "process"
    /\ UNCHANGED <<env_vars, audio_vars, transcription, worker_vars, otext,
                   context_history, processed_questions, question_to_process, events,
                   ctx_log, pq_log, in_call, fn_vars>>

take_clear_mut_holdlock ==
    /\ opc = "clear"
    /\ last_transcription' = ""
    /\ slot_src' = 0
    /\ lock' = lock
    /\ taken' = IF slot_src = 0 THEN taken ELSE Append(taken, slot_src)
    /\ last_take' = [text |-> otext, src |-> slot_src,
                     len |-> Len(transcription), prev |-> last_take.len]
    /\ opc' = "process"
    /\ UNCHANGED <<env_vars, audio_vars, transcription, worker_vars, otext,
                   context_history, processed_questions, question_to_process, events,
                   ctx_log, pq_log, in_call, fn_vars>>

take_clear ==
    /\ opc = "clear"
    /\ last_transcription' = ""
    /\ slot_src' = 0
    /\ lock' = "free"
    /\ taken' = IF slot_src = 0 THEN taken ELSE Append(taken, slot_src)
    /\ last_take' = [text |-> otext, src |-> slot_src,
                     len |-> Len(transcription), prev |-> last_take.len]
    /\ opc' = "process"
    /\ UNCHANGED <<env_vars, audio_vars, transcription, worker_vars, otext,
                   context_history, processed_questions, question_to_process, events,
                   ctx_log, pq_log, in_call, fn_vars>>

(***************************************************************************)
(* The poll loop of InterviewCheatSheet.start_stt_processing               *)
(***************************************************************************)

KnownProviders == {"ollama", "openrouter"}

\* len(question_to_process.split()) >= 5
MinQuestionWords == 5

Event(type, text) == [type |-> type, text |-> text]

\* question_to_process after lines 73-82, given the span and the context
\* window the span was already appended to.
candidate_mut_accfirst(text, context) ==
    IF check_accumulated_question(context) # None
    THEN check_accumulated_question(context)
    ELSE IF is_question(text) THEN Some(text) ELSE None

candidate(text, context) ==
    IF is_question(text) THEN Some(text) ELSE check_accumulated_question(context)

\* while self.stt.is_listening and self.gui.root.winfo_exists()
loop_check ==
    /\ opc = "loop"
    /\ opc' = IF is_listening /\ gui_exists THEN "take" ELSE "exited"
    /\ UNCHANGED <<env_vars, audio_vars, slot_vars, worker_vars, take_vars, otext,
                   context_history, processed_questions, question_to_process, events,
                   ctx_log, pq_log, in_call, fn_vars>>

\* in_call while no backend call is in flight.
NotInCall == [frames |-> 0, segments |-> 0, spans |-> 0]

\* What one backend request comes to: an answer, or one of the failures the
\* try blocks of _process_ollama and _process_openrouter catch, or no API key.
BackendOutcomes ==
    {"answer", "request_error", "timeout", "bad_status", "malformed_json", "no_api_key"}

\* response.json()["response"] of a request that succeeded.
AnswerBody == "**Answer:** Measure first. (Key points: data)"

\* str(e) of the exception a failed request raises.
ErrorText(outcome) ==
    CASE outcome = "request_error" ->
             "Max retries exceeded (Caused by NewConnectionError('refused'))"
      [] outcome = "timeout" -> "Read timed out. (read timeout=60)"
      [] outcome = "bad_status" -> "500 Server Error for url: /api"
      [] outcome = "malformed_json" -> "Expecting value: line 1 column 1 (char 0)"

\* LLMProcessor._process_ollama; OLLAMA has no API key, a missing one changes
\* nothing.
process_ollama_mut_empty(outcome) ==
    IF outcome \in {"answer", "no_api_key"} THEN AnswerBody ELSE ""

process_ollama(outcome) ==
    IF outcome \in {"answer", "no_api_key"}
    THEN AnswerBody
    ELSE "Error with Ollama: " \o ErrorText(outcome)
             \o "\nMake sure Ollama is running: ollama serve"

\* LLMProcessor._process_openrouter
process_openrouter(outcome) ==
    IF outcome = "no_api_key" THEN "Error: OPENROUTER_API_KEY not set"
    ELSE IF outcome = "answer" THEN AnswerBody
    ELSE "Error with OpenRouter: " \o ErrorText(outcome)

\* LLMProcessor.process for a provider it knows.
process(llm_provider, outcome) ==
    clean_response(IF llm_provider = "ollama"
                   THEN process_ollama(outcome)
                   ELSE process_openrouter(outcome))

\* One pass of the loop body on the text the take returned, up to the call of
\* llm_processor.process() (lines 69-92 and 100-104).
process_tick_mut_silent ==
    /\ opc = "process"
    /\ IF otext = ""
       THEN /\ opc' = "loop"
            /\ UNCHANGED <<context_history, question_to_process, events,
                           ctx_log, in_call>>
       ELSE LET context == add_to_context(context_history, otext)
                cand == candidate(otext, context)
            IN  /\ context_history' = context
                /\ ctx_log' = Append(ctx_log, otext)
                /\ question_to_process' = cand
                /\ IF cand # None /\ ~is_similar_question(cand[1], processed_questions)
                   THEN IF Len(split(cand[1])) >= MinQuestionWords
                        THEN /\ events' = <<Event("question", cand[1])>>
                             /\ opc' = "llm"
                             /\ in_call' = [frames |-> frames_in,
                                            segments |-> Len(emitted),
                                            spans |-> Len(transcription)]
                        ELSE /\ events' = <<>>
                             /\ opc' = "loop"
                             /\ UNCHANGED in_call
                   ELSE /\ events' = <<>>
                        /\ opc' = "loop"
                        /\ UNCHANGED in_call
    /\ UNCHANGED <<env_vars, audio_vars, slot_vars, worker_vars, take_vars, otext,
                   processed_questions, pq_log, fn_vars>>

process_tick_mut_trackfirst ==
    /\ opc = "process"
    /\ IF otext = ""
       THEN /\ opc' = "loop"
            /\ UNCHANGED <<context_history, question_to_process, events,
                           ctx_log, in_call, processed_questions, pq_log>>
       ELSE LET context == add_to_context(context_history, otext)
                cand == candidate(otext, context)
            IN  /\ context_history' = context
                /\ ctx_log' = Append(ctx_log, otext)
                /\ question_to_process' = cand
                /\ IF cand # None /\ ~is_similar_question(cand[1], processed_questions)
                   THEN IF Len(split(cand[1])) >= MinQuestionWords
                        THEN /\ events' = <<Event("question", cand[1])>>
                             /\ processed_questions' =
                                    track_question(processed_questions, cand[1])
                             /\ pq_log' = Append(pq_log, cand[1])
                             /\ opc' = "llm"
                             /\ in_call' = [frames |-> frames_in,
                                            segments |-> Len(emitted),
                                            spans |-> Len(transcription)]
                        ELSE /\ events' = <<>>
                             /\ opc' = "loop"
                             /\ UNCHANGED <<in_call, processed_questions, pq_log>>
                   ELSE /\ events' = <<Event("transcription", otext)>>
                        /\ opc' = "loop"
                        /\ UNCHANGED <<in_call, processed_questions, pq_log>>
    /\ UNCHANGED <<env_vars, audio_vars, slot_vars, worker_vars, take_vars, otext,
                   fn_vars>>

process_tick ==
    /\ opc = "process"
    /\ IF otext = ""
       THEN /\ opc' = "loop"
            /\ UNCHANGED <<context_history, question_to_process, events,
                           ctx_log, in_call>>
       ELSE LET context == add_to_context(context_history, otext)
                cand == candidate(otext, context)
            IN  /\ context_history' = context
                /\ ctx_log' = Append(ctx_log, otext)
                /\ question_to_process' = cand
                /\ IF cand # None /\ ~is_similar_question(cand[1], processed_questions)
                   THEN IF Len(split(cand[1])) >= MinQuestionWords
                        THEN /\ events' = <<Event("question", cand[1])>>
                             /\ opc' = "llm"
                             /\ in_call' = [frames |-> frames_in,
                                            segments |-> Len(emitted),
                                            spans |-> Len(transcription)]
                        ELSE /\ events' = <<>>
                             /\ opc' = "loop"
                             /\ UNCHANGED in_call
                   ELSE /\ events' = <<Event("transcription", otext)>>
                        /\ opc' = "loop"
                        /\ UNCHANGED in_call
    /\ UNCHANGED <<env_vars, audio_vars, slot_vars, worker_vars, take_vars, otext,
                   processed_questions, pq_log, fn_vars>>

\* llm_processor.process() returns, or raises ValueError for an unknown
\* provider; then lines 93-94.  A backend failure comes back as an error text.
llm_return(outcome) ==
    /\ opc = "llm"
    /\ IF provider \in KnownProviders
       THEN /\ events' = Append(events, Event("answer", process(provider, outcome)))
            /\ opc' = "track"
       ELSE /\ outcome = "answer"
            /\ opc' = "handler"
            /\ UNCHANGED events
    /\ in_call' = NotInCall
    /\ UNCHANGED <<env_vars, audio_vars, slot_vars, worker_vars, take_vars, otext,
                   context_history, processed_questions, question_to_process,
                   ctx_log, pq_log, fn_vars>>

\* Lines 97-99: self.processed_questions.append(question_to_process), and
\* the oldest is dropped beyond the last 10.
track_processed_mut_skiperror ==
    /\ opc = "track"
    /\ IF startswith(events[2].text, "Error")
       THEN UNCHANGED <<processed_questions, pq_log>>
       ELSE /\ processed_questions' =
                   track_question(processed_questions, question_to_process[1])
            /\ pq_log' = Append(pq_log, question_to_process[1])
    /\ opc' = "loop"
    /\ UNCHANGED <<env_vars, audio_vars, slot_vars, worker_vars, take_vars, otext,
                   context_history, question_to_process, events, ctx_log, in_call,
                   fn_vars>>

track_processed ==
    /\ opc = "track"
    /\ processed_questions' =
           track_question(processed_questions, question_to_process[1])
    /\ pq_log' = Append(pq_log, question_to_process[1])
    /\ opc' = "loop"
    /\ UNCHANGED <<env_vars, audio_vars, slot_vars, worker_vars, take_vars, otext,
                   context_history, question_to_process, events, ctx_log, in_call,
                   fn_vars>>

\* listen() raises: it terminates the PyAudio handle and the exception reaches
\* the handler of start_stt_processing.
listen_fail ==
    /\ opc = "listen"
    /\ pa' = "terminated"
    /\ opc' = "handler"
    /\ UNCHANGED <<env_vars, RATE, audio_buffer, data_queue, stream, is_listening,
                   frames_in, emitted, encode_failed, stop_calls, stop_raised, spc, at_stop,
                   slot_vars, worker_vars, take_vars, otext, context_history,
                   processed_questions, question_to_process, events, ctx_log, pq_log, in_call, fn_vars>>

handler_mut_nostop ==
    /\ opc = "handler"
    /\ opc' = "exited"
    /\ UNCHANGED <<env_vars, audio_vars, slot_vars, worker_vars, take_vars, otext,
                   context_history, processed_questions, question_to_process, events,
                   ctx_log, pq_log, in_call, fn_vars>>

\* except Exception: self.gui.update_status(...), and self.stt.stop() begins ...
handler ==
    /\ opc = "handler"
    /\ stop_enter
    /\ opc' = "stopping"
    /\ UNCHANGED <<env_vars, RATE, audio_buffer, data_queue, stream, pa, frames_in,
                   emitted, encode_failed, spc, stop_calls, stop_raised,
                   slot_vars, worker_vars, take_vars, otext, context_history,
                   processed_questions, question_to_process, events, ctx_log, pq_log,
                   in_call, fn_vars>>

\* ... and runs to its end; start_stt_processing returns.
handler_stop ==
    /\ opc = "stopping"
    /\ stop_body
    /\ opc' = "exited"
    /\ UNCHANGED <<env_vars, RATE, audio_buffer, is_listening, frames_in, emitted,
                   encode_failed, spc, at_stop,
                   slot_vars, worker_vars, take_vars, otext, context_history,
                   processed_questions, question_to_process, events, ctx_log, pq_log,
                   in_call, fn_vars>>

\* The user closes the window.
close_window ==
    /\ gui_exists
    /\ gui_exists' = FALSE
    /\ UNCHANGED <<script, provider, audio_vars, slot_vars, worker_vars, take_vars,
                   orch_vars, fn_vars>>

\* get_last_transcription() returns the next span of the script: the poll
\* loop taken alone, one span per tick.
poll_returns ==
    /\ opc = "take"
    /\ Len(ctx_log) < Len(script)
    /\ otext' = strip(script[Len(ctx_log) + 1])
    /\ opc' = "process"
    /\ UNCHANGED <<env_vars, audio_vars, slot_vars, worker_vars, take_vars,
                   context_history, processed_questions, question_to_process, events,
                   ctx_log, pq_log, in_call, fn_vars>>

(***************************************************************************)
(* Specifications                                                          *)
(***************************************************************************)

\* LLM_PROVIDER: the default, and a name process() does not know.
Providers == {"ollama", "gpt"}
OrchProviders == {"ollama", "openrouter", "gpt"}

\* The outcomes of a backend request in a run of the whole pipeline.
PipelineOutcomes == {"answer", "timeout"}

\* What is said in a run of the whole pipeline: one question again and
\* again, or the question and a fragment in turn.
StopScript ==
    [i \in 1..MaxSpans |-> IF i % 2 = 1 THEN "How would you scale it?" ELSE " at work "]
PipelineScripts == {[i \in 1..MaxSpans |-> "How would you scale it?"], StopScript}

\* What is said in a run of the poll loop alone: every short script over the
\* short texts, and long scripts that repeat the four long questions in some
\* fixed order.
ShortTexts == {"Um so", "tell me about a time you failed", "at work",
               "Tell me about your experience with Python",
               "Tell me about your experience with python programming"}
LongTexts == {"why do you want this job", "describe a time you failed",
              "what would you do first then", "is it hard to scale up?"}
ShortScripts == UNION {[1..k -> ShortTexts] : k \in 1..MaxShort}
LongScripts ==
    {[i \in 1..MaxTicks |-> base[((i - 1) % 4) + 1]] :
        base \in {b \in [1..4 -> LongTexts] : \A i, j \in 1..4 : i # j => b[i] # b[j]}}
\* A full-length short script and one more fragment after it.
TailedScripts == {Append(s, "at work") : s \in [1..MaxShort -> ShortTexts]}
OrchScripts == ShortScripts \cup TailedScripts \cup LongScripts

NoCall == [fn |-> "none"]
NoTake == [text |-> "", src |-> 0, len |-> 1, prev |-> 1]

\* The state after STT.__init__ (lines 59-88) and LLMProcessor.__init__ and
\* InterviewCheatSheet.__init__: the worker thread runs, nothing is captured.
Constructed ==
    /\ gui_exists = TRUE
    /\ RATE = InitialRate
    /\ audio_buffer = <<>>
    /\ data_queue = <<>>
    /\ transcription = <<"">>
    /\ last_transcription = ""
    /\ is_listening = TRUE
    /\ lock = "free"
    /\ stream = NoStream
    /\ pa = "absent"
    /\ wpc = "loop"
    /\ wseg = <<>>
    /\ wspans = <<>>
    /\ otext = ""
    /\ context_history = <<>>
    /\ processed_questions = <<>>
    /\ question_to_process = None
    /\ events = <<>>
    /\ frames_in = 0
    /\ emitted = <<>>
    /\ encode_failed = 0
    /\ transcribed = <<>>
    /\ slot_src = 0
    /\ taken = <<>>
    /\ last_take = NoTake
    /\ spc = "idle"
    /\ stop_calls = 0
    /\ stop_raised = FALSE
    /\ at_stop = FALSE
    /\ ctx_log = <<>>
    /\ pq_log = <<>>
    /\ in_call = NotInCall
    /\ call = NoCall
    /\ ret = FALSE

Init ==
    /\ Constructed
    /\ script \in PipelineScripts
    /\ provider \in Providers
    /\ opc = "listen"

Next ==
    \/ listen_ok
    \/ listen_fail
    \/ \E ok \in BOOLEAN : audio_callback(ok)
    \/ transcribe_loop
    \/ \E raised \in BOOLEAN, k \in 0..MaxSpansPerSegment : transcribe_get(raised, k)
    \/ transcribe_append
    \/ transcribe_assign
    \/ transcribe_task_done
    \/ stop_call
    \/ stop
    \/ loop_check
    \/ take_read
    \/ take_clear
    \/ process_tick
    \/ \E o \in PipelineOutcomes : llm_return(o)
    \/ track_processed
    \/ handler
    \/ handler_stop
    \/ close_window

Spec == Init /\ [][Next]_vars

\* The whole pipeline on one script, its threads scheduled fairly: the worker
\* thread takes its next step when it can, a take that holds the mutex goes
\* on to release it, and a call of stop() that has begun runs to its end.
InitStop ==
    /\ Constructed
    /\ script = StopScript
    /\ provider \in Providers
    /\ opc = "listen"

worker_step ==
    \/ transcribe_loop
    \/ \E raised \in BOOLEAN, k \in 0..MaxSpansPerSegment : transcribe_get(raised, k)
    \/ transcribe_append
    \/ transcribe_assign
    \/ transcribe_task_done

SpecStop ==
    /\ InitStop
    /\ [][Next]_vars
    /\ WF_vars(worker_step)
    /\ WF_vars(take_clear)
    /\ WF_vars(stop)
    /\ WF_vars(handler_stop)

\* The poll loop alone, polling the spans of the script one per tick.
InitOrch ==
    /\ Constructed
    /\ script \in OrchScripts
    /\ provider \in OrchProviders
    /\ opc = "loop"

NextOrch ==
    \/ loop_check
    \/ poll_returns
    \/ process_tick
    \/ \E o \in BackendOutcomes : llm_return(o)
    \/ track_processed
    \/ handler
    \/ handler_stop

SpecOrch == InitOrch /\ [][NextOrch]_vars

\* The poll loop alone with a provider process() knows and a backend whose
\* every request fails.
FailedOutcomes == {"request_error", "timeout", "bad_status", "malformed_json"}

InitFail ==
    /\ Constructed
    /\ script \in OrchScripts
    /\ provider \in KnownProviders
    /\ opc = "loop"

NextFail ==
    \/ loop_check
    \/ poll_returns
    \/ process_tick
    \/ \E o \in FailedOutcomes : llm_return(o)
    \/ track_processed

SpecFail == InitFail /\ [][NextFail]_vars

(***************************************************************************)
(* The pure functions on drawn inputs                                      *)
(***************************************************************************)

MaxPad == 6        \* filler words in an input of is_question
MaxSimWords == 2   \* words in an input of the similarity

RECURSIVE pad(_)
pad(k) == IF k = 0 THEN "" ELSE " x" \o pad(k - 1)

QuestionHeads == {"What", "Tell me", "Um so", "  how", "?"}
QuestionTails == {"", "?", " is...", " so... ", " why do you want it", "...?",
                  " ? yes", " ? the...", " how would you..."}

\* Texts of 1 to MaxPad + 6 words: with and without a question mark, a
\* canonical phrase, an opener, an incomplete ending, surrounding blanks.
QuestionInputs ==
    {h \o pad(k) \o t : h \in QuestionHeads, k \in 0..MaxPad, t \in QuestionTails}

SimWords == {"Tell", "tell", "me", "python"}
SimInputs ==
    {join(ws) : ws \in UNION {[1..k -> SimWords] : k \in 1..MaxSimWords}}

call_is_question(text) ==
    /\ call.fn = "none"
    /\ call' = [fn |-> "is_question", text |-> text]
    /\ ret' = is_question(text)
    /\ UNCHANGED <<env_vars, audio_vars, slot_vars, worker_vars, take_vars, orch_vars>>

call_similarity(a, b) ==
    /\ call.fn = "none"
    /\ call' = [fn |-> "similarity", a |-> a, b |-> b]
    /\ ret' = similarity(word_set(a), word_set(b))
    /\ UNCHANGED <<env_vars, audio_vars, slot_vars, worker_vars, take_vars, orch_vars>>

\* Raw responses of a backend: an optional boilerplate prefix in any case, a
\* body, an optional trailing parenthetical block.
CleanPrefixes == {"", "**Answer:** ", "**ANSWER:**", "answer:\n", "Answer: ",
                  "**Response:** ", "**response:**"}
CleanBodies == {"Sure, here's my response.",
                "The Answer: yes (really) it is",
                "I led a team.\nThen **Response:** I shipped it"}
CleanTails == {"", " (Key points: clarity, brevity)", "\n(note to self)",
               "\n*(meta commentary)*\n", " *(aside)", "\n*(Key points: a) b)* "}

call_clean_response(prefix, body, tail) ==
    /\ call.fn = "none"
    /\ call' = [fn |-> "clean_response", prefix |-> prefix, body |-> body,
                tail |-> tail, response |-> prefix \o body \o tail]
    /\ ret' = clean_response(prefix \o body \o tail)
    /\ UNCHANGED <<env_vars, audio_vars, slot_vars, worker_vars, take_vars, orch_vars>>

returned ==
    /\ call.fn # "none"
    /\ call' = NoCall
    /\ ret' = FALSE
    /\ UNCHANGED <<env_vars, audio_vars, slot_vars, worker_vars, take_vars, orch_vars>>

InitFn ==
    /\ Constructed
    /\ script = <<>>
    /\ provider = "ollama"
    /\ opc = "listen"

NextFn ==
    \/ \E t \in QuestionInputs : call_is_question(t)
    \/ \E a \in SimInputs, b \in SimInputs : call_similarity(a, b)
    \/ \E p \in CleanPrefixes, b \in CleanBodies, t \in CleanTails :
           call_clean_response(p, b, t)
    \/ returned

SpecFn == InitFn /\ [][NextFn]_vars

(***************************************************************************)
(* Claims                                                                  *)
(***************************************************************************)

\* C1: the slot is read-and-clear with latest-value semantics.  Every take
\* returns the span written last since the previous take, or "" when none was
\* written; it leaves the slot empty, so whatever the slot holds later was
\* written after the take; and no written span is returned by two takes.
C1_SlotReadAndClear ==
    /\ last_take.text = (IF last_take.len > last_take.prev
                         THEN transcription[last_take.len] ELSE "")
    /\ last_take.src = (IF last_take.len > last_take.prev THEN last_take.len ELSE 0)
    /\ \A i, j \in 1..Len(taken) : i # j => taken[i] # taken[j]
    /\ slot_src = 0 => last_transcription = ""
    /\ (opc # "clear" /\ slot_src # 0) => slot_src > last_take.len

\* Two takes returned a span each, and the second one returned the later of
\* two spans written since the first: the earlier one was overwritten.
C1_Witness ==
    /\ Len(taken) = 2
    /\ last_take.len = last_take.prev + 2
    /\ last_take.src = last_take.len

\* C2: the context window never holds more than max_context entries and the
\* question history never more than max_processed; each holds exactly the
\* last entries appended to it, in the order they were appended.
C2_BoundedFifo ==
    /\ Len(context_history) <= max_context
    /\ Len(processed_questions) <= max_processed
    /\ context_history = last_n(ctx_log, max_context)
    /\ processed_questions = last_n(pq_log, max_processed)

\* Both lists have evicted: more than max_context + 1 texts and more than
\* max_processed questions were appended.
C2_Witness ==
    /\ Len(ctx_log) > max_context + 1
    /\ Len(pq_log) > max_processed
    /\ Len(context_history) = max_context
    /\ Len(processed_questions) = max_processed

\* C3 as stated: after each frame, a segment holding every buffered frame is
\* enqueued and the buffer emptied if and only if the buffered duration has
\* reached buffer_duration; otherwise nothing is enqueued and the buffer keeps
\* all frames.
C3_EnqueuedIffFull ==
    [][frames_in' = frames_in + 1 =>
        LET buffer == Append(audio_buffer, frames_in')
        IN  IF Len(buffer) * CHUNK >= buffer_duration * RATE
            THEN data_queue' = Append(data_queue, Wav(buffer)) /\ audio_buffer' = <<>>
            ELSE data_queue' = data_queue /\ audio_buffer' = buffer]_vars

\* C3, amended: the same, provided the encoding of the full buffer succeeds;
\* when it fails nothing is enqueued and the buffer is emptied all the same.
\* No enqueued segment is shorter than buffer_duration, and exactly
\* buffer_duration of audio, encoded without failure, is one segment and an
\* empty buffer.
C3_EnqueuedIffFullAndEncoded ==
    /\ [][frames_in' = frames_in + 1 =>
            LET buffer == Append(audio_buffer, frames_in')
            IN  IF Len(buffer) * CHUNK >= buffer_duration * RATE
                THEN /\ audio_buffer' = <<>>
                     /\ IF encode_failed' = encode_failed
                        THEN data_queue' = Append(data_queue, Wav(buffer))
                        ELSE data_queue' = data_queue
                ELSE /\ data_queue' = data_queue
                     /\ audio_buffer' = buffer
                     /\ encode_failed' = encode_failed]_vars
    /\ [](\A i \in 1..Len(emitted) : Len(emitted[i]) * CHUNK >= buffer_duration * RATE)
    /\ []((frames_in * CHUNK = buffer_duration * RATE /\ encode_failed = 0)
              => (Len(emitted) = 1 /\ audio_buffer = <<>>))

\* One buffer was dropped by a failed encoding and a later one was emitted.
C3_Witness ==
    /\ encode_failed = 1
    /\ Len(emitted) = 1
    /\ emitted[1][1] > 1
    /\ audio_buffer = <<>>

\* Token-set Jaccard similarity above 0.70 with one of the 3 most recent
\* entries of the history.
JaccardDuplicate(question, processed) ==
    \E i \in 1..Len(processed) :
        /\ i > Len(processed) - 3
        /\ LET a == word_set(question)
               b == word_set(processed[i])
           IN  /\ a # {} /\ b # {}
               /\ 10 * Cardinality(a \cap b) > 7 * Cardinality(a \cup b)

\* C4: a candidate is treated as a duplicate if and only if its Jaccard
\* similarity with one of the 3 most recent history entries exceeds 0.70: a
\* candidate that reaches the backend has none, and a candidate that was only
\* shown as a transcription has one.
C4_DuplicateIffJaccard ==
    /\ opc = "llm" => ~JaccardDuplicate(question_to_process[1], processed_questions)
    /\ (/\ opc = "loop"
        /\ otext # ""
        /\ events = <<Event("transcription", otext)>>
        /\ question_to_process # None)
           => JaccardDuplicate(question_to_process[1], processed_questions)

\* The re-read of the Python question was flagged a duplicate.
C4_Witness ==
    /\ opc = "loop"
    /\ processed_questions = <<"Tell me about your experience with Python">>
    /\ question_to_process = Some("Tell me about your experience with python programming")
    /\ events = <<Event("transcription", otext)>>

SplitSpans == <<"Um so", "tell me about a time you failed", "at work">>

\* C5: on the tick on which the context window becomes the three split spans,
\* the joined string passes is_question and check_accumulated_question
\* returns it.
C5_SplitQuestionFires ==
    (/\ context_history = SplitSpans
     /\ otext = "at work"
     /\ opc \in {"loop", "llm"})
        => /\ is_question(join(SplitSpans))
           /\ check_accumulated_question(context_history) = Some(join(SplitSpans))
           /\ question_to_process = Some(join(SplitSpans))

\* C6: after every call of stop() that follows a successful listen(), the
\* second one included, no call has raised, the listening flag is false, the
\* stream is stopped and closed and the PyAudio handle terminated.
C6_StopIdempotent ==
    (stop_calls >= 1 /\ stream.exists)
        => /\ ~stop_raised
           /\ ~is_listening
           /\ ~stream.running
           /\ ~stream.open
           /\ pa = "terminated"

\* stop() was called twice after a successful listen().
C6_Witness == stop_calls = 2 /\ stream.exists /\ Len(data_queue) >= 2

\* C7: a model call that raises for one segment does not end the worker
\* thread.
C7_WorkerSurvives == wpc # "dead"

\* The incomplete-ending rule of is_question, on its own.
EndsIncomplete(text) ==
    \E e \in {"what is...", "is...", "about...", "...", "so...", "like...", "the..."} :
        endswith(lower(strip(text)), e)

\* C8: is_question returns false for every text of fewer than 5 words.
C8_ShortTextRejected ==
    (call.fn = "is_question" /\ Len(split(call.text)) < 5) => ret = FALSE

\* A text of fewer than 5 words with a question mark was rejected.
C8_Witness ==
    /\ call.fn = "is_question"
    /\ Len(split(call.text)) = 4
    /\ contains(call.text, "?")
    /\ ret = FALSE

\* C9 as stated: is_question returns true for every text that contains '?'
\* and does not end in an incomplete marker.
C9_QuestionMarkAccepted ==
    (call.fn = "is_question" /\ contains(call.text, "?") /\ ~EndsIncomplete(call.text))
        => ret = TRUE

\* C9, amended: is_question returns true for every text of at least 5 words
\* that contains '?' and does not end in an incomplete marker, and false when
\* such a text does end in one.
C9_LongQuestionMarkAccepted ==
    (call.fn = "is_question" /\ contains(call.text, "?") /\ Len(split(call.text)) >= 5)
        => (ret = ~EndsIncomplete(call.text))

\* A text of at least 5 words with a question mark and an incomplete ending
\* was rejected.
C9_Witness ==
    /\ call.fn = "is_question"
    /\ contains(call.text, "?")
    /\ Len(split(call.text)) >= 5
    /\ EndsIncomplete(call.text)
    /\ ret = FALSE

\* C10: the similarity is symmetric, lies in [0,1], is 1 for identical token
\* sets and 0 for disjoint ones.
C10_JaccardProperties ==
    call.fn = "similarity" =>
        LET a == word_set(call.a)
            b == word_set(call.b)
        IN  /\ ret = similarity(b, a)
            /\ 0 <= ret.num /\ ret.num <= ret.den /\ ret.den > 0
            /\ a = b => ret.num = ret.den
            /\ a \cap b = {} => ret.num = 0

\* Two different texts with the same token set, of different sizes as lists.
C10_Witness ==
    /\ call.fn = "similarity"
    /\ call.a = "Tell me"
    /\ call.b = "me tell"
    /\ ret.num = 2 /\ ret.den = 2

\* C15: clean_response strips a leading boilerplate prefix, in any case and
\* only at the start, and a trailing parenthetical block, then trims blanks,
\* and leaves the body as it was; the documented input yields exactly
\* "Sure, here's my response.".
C15_CleanResponse ==
    call.fn = "clean_response" =>
        /\ ret = call.body
        /\ call.response = "**Answer:** Sure, here's my response. (Key points: clarity, brevity)"
               => ret = "Sure, here's my response."

\* The documented input was cleaned.
C15_Witness ==
    /\ call.fn = "clean_response"
    /\ call.prefix = "**Answer:** "
    /\ call.body = "Sure, here's my response."
    /\ call.tail = " (Key points: clarity, brevity)"
    /\ ret = "Sure, here's my response."

\* The canonical interview phrases and the openers, as the rules name them.
CanonicalPhrases ==
    {"tell me about yourself", "describe yourself", "what are your strengths",
     "what are your weaknesses", "why should we hire you", "why do you want",
     "where do you see yourself", "describe a time", "give me an example",
     "how would you", "what would you do", "can you tell me about",
     "could you explain", "walk me through your", "run me through your"}
Openers ==
    {"what", "why", "how", "when", "where", "who", "can you", "could you",
     "would you", "do you", "tell me", "explain", "describe", "define"}

\* C20: is_question is the six-rule cascade in order: fewer than 5 words,
\* false; an incomplete ending, false, even with a '?' or a canonical phrase;
\* a '?', true; a canonical phrase, true; at least 7 words and an opener at
\* the start, true; otherwise false.
C20_RuleCascade ==
    call.fn = "is_question" =>
        LET words == Len(split(call.text))
            trimmed == lower(strip(call.text))
        IN  ret = (/\ words >= 5
                   /\ ~EndsIncomplete(call.text)
                   /\ \/ contains(call.text, "?")
                      \/ \E p \in CanonicalPhrases : contains(trimmed, p)
                      \/ words >= 7 /\ \E o \in Openers : startswith(trimmed, o))

\* A 6-word text that starts with an opener, with no '?' and no canonical
\* phrase, was rejected.
C20_Witness ==
    /\ call.fn = "is_question"
    /\ Len(split(call.text)) = 6
    /\ startswith(lower(strip(call.text)), "what")
    /\ ~contains(call.text, "?")
    /\ \A p \in CanonicalPhrases : ~contains(lower(strip(call.text)), p)
    /\ ~EndsIncomplete(call.text)
    /\ ret = FALSE

\* The entries of the context window from position i on, oldest first, with
\* one space between them.
RECURSIVE SpaceJoined(_, _)
SpaceJoined(context, i) ==
    IF i > Len(context) THEN ""
    ELSE IF i = Len(context) THEN context[i]
    ELSE context[i] \o " " \o SpaceJoined(context, i + 1)

\* C16: on a tick whose span is not itself a question, the accumulated
\* check returns nothing when the window holds fewer than 2 entries, and
\* otherwise the space-joined last 3 entries (both when there are only 2) if
\* and only if that string passes is_question; it leaves the window as
\* add_to_context left it.
C16_AccumulatedQuestion ==
    (opc \in {"loop", "llm", "handler", "stopping"} /\ otext # "" /\ ~is_question(otext)) =>
        LET n == Len(context_history)
            recent == SpaceJoined(context_history, IF n > 3 THEN n - 2 ELSE 1)
        IN  /\ question_to_process =
                   (IF n >= 2 /\ is_question(recent) THEN <<recent>> ELSE <<>>)
            /\ context_history = last_n(ctx_log, max_context)
            /\ context_history[n] = otext

\* With 4 entries in the window the check returned the last 3, joined, and
\* not the first.
C16_Witness ==
    /\ opc = "loop"
    /\ Len(context_history) = 4
    /\ ~is_question(otext)
    /\ question_to_process = <<SpaceJoined(context_history, 2)>>

\* The outcome of a tick that asked the backend and was answered.
Answered(evs) ==
    /\ Len(evs) = 2
    /\ evs[1].type = "question"
    /\ evs[2].type = "answer"

\* C11 as stated: every non-empty span the poll loop takes gives, on its
\* tick, either a question event followed by an answer event or a
\* transcription event with the raw span.
C11_OneOutcomePerSpan ==
    (otext # "" /\ opc \in {"loop", "handler", "stopping", "exited"})
        => \/ Answered(events)
           \/ events = <<Event("transcription", otext)>>

\* C11, amended: the same for a provider process() knows.  A candidate that
\* is not a duplicate is shown as a question and sent to the backend, and
\* every candidate has at least 5 words; any other span is shown as a
\* transcription.  With an unknown provider the tick of the first such
\* candidate ends with the question event alone, in the handler.
C11_OneOutcomePerSpanKnownProvider ==
    /\ question_to_process # <<>> => Len(split(question_to_process[1])) >= 5
    /\ opc = "llm" =>
           /\ question_to_process # <<>>
           /\ events = <<Event("question", question_to_process[1])>>
           /\ ~JaccardDuplicate(question_to_process[1], processed_questions)
    /\ (otext # "" /\ opc = "loop") =>
           \/ /\ events = <<Event("transcription", otext)>>
              /\ \/ question_to_process = <<>>
                 \/ JaccardDuplicate(question_to_process[1], processed_questions)
           \/ /\ provider \in {"ollama", "openrouter"}
              /\ Answered(events)
              /\ events[1].text = question_to_process[1]
              /\ pq_log[Len(pq_log)] = question_to_process[1]
    /\ (otext # "" /\ opc \in {"handler", "stopping", "exited"}) =>
           /\ provider \notin {"ollama", "openrouter"}
           /\ events = <<Event("question", question_to_process[1])>>

\* A span was answered and the next one, no candidate at all, was shown as
\* a transcription.
C11_Witness ==
    /\ opc = "loop"
    /\ Len(pq_log) = 1
    /\ Len(ctx_log) = 3
    /\ pq_log[1] = ctx_log[2]
    /\ events = <<Event("transcription", otext)>>
    /\ question_to_process = <<>>

\* C14: a backend request that fails does not raise out of process(): the
\* call returns a non-empty text, the answer or an error message, which is
\* emitted as the answer event after the question, and the poll loop goes
\* on with the listening flag still true.
C14_BackendFailureDisplayed ==
    /\ [][(opc = "llm" /\ provider \in {"ollama", "openrouter"} /\ opc' # "llm") =>
              /\ opc' = "track"
              /\ is_listening'
              /\ Answered(events')
              /\ events'[1] = events[1]
              /\ events'[2].text # ""
              /\ \/ events'[2].text = "Measure first."
                 \/ startswith(events'[2].text, "Error")]_vars
    /\ [][(opc = "track" /\ opc' # "track") =>
              /\ opc' = "loop"
              /\ is_listening'
              /\ events' = events]_vars

\* An OpenRouter request timed out and the error text was shown as the
\* answer; the loop is back at its test, still listening.
C14_Witness ==
    /\ opc = "loop"
    /\ is_listening
    /\ provider = "openrouter"
    /\ Answered(events)
    /\ startswith(events[2].text, "Error with OpenRouter: Read timed out.")

\* C12: the segments are handed to the model in the order audio_callback
\* enqueued them, a span appended to the log belongs to the segment dequeued
\* last, and the next segment is dequeued only when every span of the one
\* before is in the log.
C12_SegmentsInOrder ==
    /\ [](\A i \in 1..Len(transcribed) :
              i <= Len(emitted) /\ transcribed[i] = emitted[i])
    /\ [][transcription' # transcription =>
              /\ transcribed # <<>>
              /\ wseg = transcribed[Len(transcribed)]
              /\ transcribed' = transcribed]_vars
    /\ [][transcribed' # transcribed => wspans = <<>>]_vars

\* Two segments were transcribed, the earlier one first, and the log holds
\* the spans of both.
C12_Witness ==
    /\ Len(transcribed) = 2
    /\ transcribed[1][1] < transcribed[2][1]
    /\ Len(transcription) = 4
    /\ wpc = "emit" /\ wspans = <<>>
    /\ wseg = emitted[2]

\* C13: no mutex is held across the backend call and one question at a time
\* is being answered; the audio callback can take its step whenever the
\* stream runs, whatever the poll loop, the worker and the mutex are doing,
\* and during the call the worker can take its step unless the queue it
\* waits on is empty.
C13_CaptureNotStalled ==
    /\ (opc = "llm") = (in_call # NotInCall)
    /\ opc = "llm" =>
           /\ lock # "main"
           /\ Len(events) = 1 /\ events[1].type = "question"
           /\ wpc = "loop" => ENABLED transcribe_loop
           /\ (wpc = "get" /\ data_queue # <<>>) =>
                  ENABLED (\E raised \in BOOLEAN, k \in 0..MaxSpansPerSegment :
                               transcribe_get(raised, k))
           /\ (wpc = "emit" /\ wspans # <<>>) => ENABLED transcribe_append
           /\ wpc = "assign" => ENABLED transcribe_assign
           /\ (wpc = "emit" /\ wspans = <<>>) => ENABLED transcribe_task_done
    /\ (stream.running /\ frames_in < MaxFrames) =>
           ENABLED (\E ok \in BOOLEAN : audio_callback(ok))

\* While one backend call was in flight, frames arrived, a segment was
\* enqueued and a span was appended to the log.
C13_Witness ==
    /\ opc = "llm"
    /\ frames_in > in_call.frames
    /\ Len(emitted) > in_call.segments
    /\ Len(transcription) > in_call.spans

\* C18: the ValueError of process() for an unknown provider reaches the
\* handler without another event; the handler calls stop(), which clears
\* the listening flag, stops and closes the stream if there is one and
\* enqueues the sentinel; the poll loop has then exited and emits nothing
\* more.
C18_FatalErrorStops ==
    /\ [][(opc = "llm" /\ provider \notin {"ollama", "openrouter"} /\ opc' # "llm") =>
              opc' = "handler" /\ events' = events]_vars
    /\ [][(opc = "handler" /\ opc' # "handler") =>
              /\ opc' = "stopping"
              /\ ~is_listening'
              /\ events' = events]_vars
    /\ [][(opc = "stopping" /\ opc' # "stopping") =>
              /\ opc' = "exited"
              /\ stop_calls' = stop_calls + 1
              /\ ~is_listening'
              /\ stream'.exists => (~stream'.running /\ ~stream'.open)
              /\ stream'.exists = stream.exists
              /\ data_queue' = Append(data_queue, [kind |-> "STOP", frames |-> <<>>])
              /\ events' = events]_vars
    /\ [][opc = "exited" => (opc' = "exited" /\ events' = events)]_vars

\* The first question met an unknown provider: the loop has exited through
\* the handler, with the question event as the last one.
C18_Witness ==
    /\ opc = "exited"
    /\ provider = "gpt"
    /\ stop_calls = 1
    /\ ~is_listening
    /\ stream.exists /\ ~stream.running /\ ~stream.open
    /\ Len(events) = 1 /\ events[1].type = "question"
    /\ data_queue # <<>> /\ data_queue[Len(data_queue)].kind = "STOP"

\* The frames from first to last, in order.
FrameRun(first, last) == [i \in 1..(last - first + 1) |-> first + i - 1]

\* C19: a failed encoding enqueues nothing, empties the buffer and leaves the
\* stream running; the buffer always holds the frames that came since it was
\* last emptied, so every segment enqueued, also after a failure, is a run of
\* consecutive frames that just reaches buffer_duration.
C19_EncodeFailureDropsBuffer ==
    /\ [][encode_failed' # encode_failed =>
              /\ (Len(audio_buffer) + 1) * CHUNK >= buffer_duration * RATE
              /\ frames_in' = frames_in + 1
              /\ data_queue' = data_queue
              /\ emitted' = emitted
              /\ audio_buffer' = <<>>
              /\ stream' = stream /\ stream.running]_vars
    /\ [](audio_buffer = FrameRun(frames_in - Len(audio_buffer) + 1, frames_in))
    /\ [](\A i \in 1..Len(emitted) :
              LET seg == emitted[i]
              IN  /\ seg = FrameRun(seg[1], seg[Len(seg)])
                  /\ Len(seg) * CHUNK >= buffer_duration * RATE
                  /\ (Len(seg) - 1) * CHUNK < buffer_duration * RATE)

\* At 512 Hz the first three frames were dropped by a failed encoding and
\* the next three were enqueued as one segment.
C19_Witness ==
    /\ RATE = 512
    /\ encode_failed = 1
    /\ emitted = << <<4, 5, 6>> >>
    /\ audio_buffer = <<>>

\* The worker thread has ended: its loop is over or an exception ended it.
WorkerEnded == wpc \in {"done", "dead"}

\* C17 as stated: once stop() has been called the worker thread eventually
\* ends, and after stop() it hands no further segment to the model.
C17_WorkerStopsAtOnce ==
    /\ (~is_listening) ~> WorkerEnded
    /\ [][~is_listening => transcribed' = transcribed]_vars

\* C17, amended: once stop() has been called the worker thread eventually
\* ends; after stop() it never goes back to wait on the queue, so it hands
\* the model at most the one segment it was waiting to dequeue when stop()
\* was called.
C17_WorkerStopsAfterAtMostOne ==
    /\ (~is_listening) ~> WorkerEnded
    /\ [][~is_listening => ~(wpc # "get" /\ wpc' = "get")]_vars
    /\ [][(~is_listening /\ transcribed' # transcribed) =>
              /\ wpc = "get" /\ wpc' # "get"
              /\ Len(transcribed') = Len(transcribed) + 1]_vars

\* stop() has been called while the worker, past its loop test, is about to
\* dequeue a segment that is queued ahead of the sentinel.
C17_Witness ==
    /\ stop_calls > 0
    /\ ~is_listening
    /\ wpc = "get"
    /\ Len(data_queue) >= 2
    /\ data_queue[1].kind = "wav"
    /\ data_queue[Len(data_queue)].kind = "STOP"

\* C21: the log only ever grows at its end; whenever the mutex is free the
\* slot is empty or holds the last entry of the log; and the text a take has
\* read from the slot is empty or the last entry of the log.
C21_LogAndSlotAtomic ==
    /\ [][/\ Len(transcription') >= Len(transcription)
          /\ SubSeq(transcription', 1, Len(transcription)) = transcription]_vars
    /\ [](lock = "free" =>
              \/ last_transcription = ""
              \/ last_transcription = transcription[Len(transcription)])
    /\ [](opc = "clear" =>
              \/ otext = ""
              \/ otext = transcription[Len(transcription)])

\* A take holding the mutex has read a span from the slot, after an earlier
\* take had returned one and while the worker is between two segments.
C21_Witness ==
    /\ opc = "clear"
    /\ otext # ""
    /\ taken # <<>>
    /\ Len(transcription) >= 3
    /\ wpc = "emit"
    /\ wspans = <<>>

\* The elements of a sequence.
Range(s) == {s[i] : i \in 1..Len(s)}

\* The frames of the segments in a sequence of segments.
FramesOf(segments) == UNION {{seg[k] : k \in 1..Len(seg)} : seg \in Range(segments)}

\* C22 as stated: frames that were in audio_buffer when stop() was called
\* are never enqueued as a segment, and stop() puts nothing but the sentinel
\* on the queue.
C22_PartialNeverEnqueued ==
    /\ [][at_stop => emitted' = emitted]_vars
    /\ [][(spc' # spc \/ (opc \in {"handler", "stopping"} /\ opc' # opc)) =>
              \/ data_queue' = data_queue
              \/ data_queue' = Append(data_queue, STOP)]_vars

\* C22, amended: the steps of a call of stop() leave audio_buffer and the
\* segments enqueued so far as they are, and the call puts the sentinel on
\* the queue and nothing else; once a call of stop() has run to its end
\* audio_buffer is never changed, no segment is enqueued and the queue only
\* loses items or gains sentinels; no frame held in audio_buffer is in an
\* enqueued segment, and only enqueued segments are on the queue or handed
\* to the model.  So the frames in audio_buffer when stop() has stopped the
\* stream are never enqueued and never transcribed.
C22_StopNeverFlushes ==
    /\ [][(spc' # spc \/ (opc \in {"handler", "stopping"} /\ opc' # opc)) =>
              /\ audio_buffer' = audio_buffer
              /\ emitted' = emitted
              /\ \/ data_queue' = data_queue /\ stop_calls' = stop_calls
                 \/ data_queue' = Append(data_queue, STOP)
                        /\ stop_calls' = stop_calls + 1]_vars
    /\ [][stop_calls > 0 =>
              /\ audio_buffer' = audio_buffer
              /\ emitted' = emitted
              /\ \/ data_queue' = data_queue
                 \/ data_queue # <<>> /\ data_queue' = Tail(data_queue)
                 \/ data_queue' = Append(data_queue, STOP)]_vars
    /\ [](Range(audio_buffer) \cap FramesOf(emitted) = {})
    /\ [](\A i \in 1..Len(data_queue) :
              data_queue[i].kind = "wav" => data_queue[i].frames \in Range(emitted))
    /\ [](Range(transcribed) \subseteq Range(emitted))

\* stop() began and ended with two frames in audio_buffer, short of a
\* segment; the worker has transcribed the segment enqueued before, taken
\* the sentinel and ended, and the two frames are still in audio_buffer.
C22_Witness ==
    /\ stop_calls > 0
    /\ Len(audio_buffer) = 2
    /\ at_stop
    /\ emitted # <<>>
    /\ transcribed = emitted
    /\ data_queue = <<>>
    /\ wpc = "done"

\* C23: while the backend call is in flight the question event of the
\* candidate is the one event of the tick; when the call returns the answer
\* event is appended after it and the history is not touched; the history
\* changes only in the step after that, which appends the candidate whose
\* question and answer events are the two events of the tick; an answer
\* event is always the second event of a tick, right after the question
\* event of the candidate; and the history holds only candidates appended in
\* that way.
C23_QuestionAnswerTrack ==
    /\ [](opc = "llm" =>
              /\ question_to_process # <<>>
              /\ events = <<Event("question", question_to_process[1])>>)
    /\ [][(opc = "llm" /\ opc' = "track") =>
              /\ Len(events') = 2
              /\ events'[1] = events[1]
              /\ events'[2].type = "answer"
              /\ pq_log' = pq_log
              /\ processed_questions' = processed_questions]_vars
    /\ [][(pq_log' # pq_log \/ processed_questions' # processed_questions) =>
              /\ opc = "track" /\ opc' = "loop"
              /\ Len(events) = 2
              /\ events[1] = Event("question", question_to_process[1])
              /\ events[2].type = "answer"
              /\ events' = events
              /\ pq_log' = Append(pq_log, question_to_process[1])
              /\ processed_questions' =
                     track_question(processed_questions, question_to_process[1])]_vars
    /\ [](\A i \in 1..Len(events) :
              /\ events[i].type = "answer" =>
                     /\ i = 2
                     /\ events[1] = Event("question", question_to_process[1])
              /\ events[i].type = "question" => i = 1)
    /\ [](Range(processed_questions) \subseteq Range(pq_log))

\* The second accepted candidate of a run has been answered and appended to
\* the history after the first.
C23_Witness ==
    /\ opc = "loop"
    /\ Len(events) = 2
    /\ events[1].type = "question" /\ events[2].type = "answer"
    /\ Len(pq_log) = 2
    /\ pq_log[2] = events[1].text
    /\ processed_questions = pq_log

\* The last entries of the context window, three at most, joined by spaces.
RecentJoined ==
    SpaceJoined(context_history,
                IF Len(context_history) > 3 THEN Len(context_history) - 2 ELSE 1)

\* The poll loop has finished the tick of the span in otext.
TickDone == opc \in {"take", "loop", "llm", "track"} /\ otext # ""

\* C24: after the tick of a span the span is the last entry of the context
\* window, so the accumulated string ends with it; the candidate is the raw
\* span whenever is_question accepts the raw span, whatever the accumulated
\* string is; when the raw span is rejected the candidate is the accumulated
\* string if the window has 2 entries or more and is_question accepts it,
\* and there is no candidate otherwise.
C24_RawSpanFirst ==
    TickDone =>
        /\ context_history # <<>>
        /\ context_history[Len(context_history)] = otext
        /\ endswith(RecentJoined, otext)
        /\ is_question(otext) => question_to_process = <<otext>>
        /\ (~is_question(otext) /\ Len(context_history) >= 2
               /\ is_question(RecentJoined)) =>
               question_to_process = <<RecentJoined>>
        /\ (~is_question(otext)
               /\ (Len(context_history) < 2 \/ ~is_question(RecentJoined))) =>
               question_to_process = <<>>

\* The raw span and the accumulated string, which is longer, both pass
\* is_question, and the candidate is the raw span.
C24_Witness ==
    /\ TickDone
    /\ is_question(otext)
    /\ Len(context_history) >= 2
    /\ RecentJoined # otext
    /\ is_question(RecentJoined)
    /\ question_to_process = <<otext>>
    /\ opc = "llm"

\* The positions of the context window that the accumulated string is
\* joined from.
RecentWindow ==
    (IF Len(context_history) > 3 THEN Len(context_history) - 2 ELSE 1)
        .. Len(context_history)

\* C25: once a span has been accepted as a question and answered, no backend
\* call is made, on the tick of a later span that is not itself a question,
\* for an accumulated string joined from a window that still holds the
\* answered span.
C25_AnsweredNotAskedAgain ==
    (opc = "llm" /\ ~is_question(otext)) =>
        \A j \in RecentWindow : \A i \in 1..Len(pq_log) :
            context_history[j] # pq_log[i]

\* C26: a backend call that fails comes back as an error text, which is
\* shown as the answer; the candidate is then appended to the history as
\* after any other call; and a polled span that equals one of the last 3
\* entries of the history is not sent to the backend: its tick ends with
\* the transcription event alone and leaves the history as it is.
C26_FailedQuestionTracked ==
    /\ [](opc = "track" =>
              /\ Answered(events)
              /\ events[1].text = question_to_process[1]
              /\ startswith(events[2].text, "Error"))
    /\ [][(opc = "track" /\ opc' # "track") =>
              /\ opc' = "loop"
              /\ pq_log' = Append(pq_log, question_to_process[1])
              /\ processed_questions' =
                     track_question(processed_questions, question_to_process[1])]_vars
    /\ [][(opc = "process" /\ otext \in Range(last_n(processed_questions, 3))
              /\ opc' # "process") =>
              /\ opc' = "loop"
              /\ events' = <<Event("transcription", otext)>>
              /\ processed_questions' = processed_questions
              /\ pq_log' = pq_log]_vars

\* The one question whose call failed was polled again and shown as a
\* transcription, without a second call.
C26_Witness ==
    /\ opc = "loop"
    /\ Len(ctx_log) = 2
    /\ ctx_log[1] = ctx_log[2]
    /\ pq_log = <<ctx_log[1]>>
    /\ processed_questions = pq_log
    /\ events = <<Event("transcription", otext)>>
    /\ otext = pq_log[1]
====
